---- MODULE Spec2Model ----
(***************************************************************************)
(* Model of the hx711_spi driver (src/src/lib.rs): the Hx711 struct, its   *)
(* operations new / read_val / reset / set_mode / mode / get_mode /        *)
(* enable / disable, the bit pattern constants of both polarity builds     *)
(* and the pure decoder decode_output.                                     *)
(***************************************************************************)
EXTENDS Integers, Sequences, FiniteSets, TLC

VARIABLES
    invert,     \* build-time feature "invert-sdo" (fixed for a behaviour)
    mode,       \* Hx711.mode
    pc,         \* position of the running operation
    op,         \* the public operation being (or last) executed
    arg,        \* set_mode's parameter m
    txrx,       \* read_val's local txrx[0]
    attempt,    \* read_val's local attempt
    buffer,     \* the 7-byte buffer handed to decode_output
    log,        \* bus transfers of the current call: <<[tx, rx]>>
    rv,         \* what the last read_val returned
    result,     \* what the last public operation returned
    entryMode,  \* stored mode when the current operation was called
    prev,       \* the previous public operation and the kind of its outcome
    checks,     \* evaluations of the loop condition (line 128) in this call
    chip,       \* HX711: channel/gain the chip applies to its next conversion
    entryChip,  \* chip when the current operation was called
    conv        \* channel/gain under which the returned sample was converted

vars == <<invert, mode, pc, op, arg, txrx, attempt, buffer, log, rv, result, entryMode, prev,
          checks, chip, entryChip, conv>>

(***************************************************************************)
(* Bounds of the model                                                     *)
(***************************************************************************)
NumBusErrors == 2       \* distinct transport error values the bus can report
NumResponseBytes == 4   \* sample bytes used to build 7-byte bus responses
NumDecodeBytes == 4     \* sample bytes per position for the decoder inputs

BusErrors == 1..NumBusErrors

\* bytes with all 16 payload nibbles reachable and varying clock sub-bits
SampleBytes == <<39, 170, 85, 128, 0, 255, 2, 40, 138, 8, 32, 127, 10, 162, 34, 168>>

SampleByte(i) == SampleBytes[((i - 1) % Len(SampleBytes)) + 1]

DecodeBytes == {SampleByte(i) : i \in 1..NumDecodeBytes}

ResponseBytes == {SampleByte(i) : i \in 1..NumResponseBytes}

\* bytes the chip may answer to the readiness probe
ProbeBytes == {0, 1, 254, 255}

(***************************************************************************)
(* Byte helpers                                                            *)
(***************************************************************************)
Pow2(n) == 2 ^ n

Bit(b, i) == (b \div Pow2(i)) % 2

\* u8 bitwise and
And8(a, b) ==
    Bit(a, 7) * Bit(b, 7) * 128 + Bit(a, 6) * Bit(b, 6) * 64
        + Bit(a, 5) * Bit(b, 5) * 32 + Bit(a, 4) * Bit(b, 4) * 16
        + Bit(a, 3) * Bit(b, 3) * 8 + Bit(a, 2) * Bit(b, 2) * 4
        + Bit(a, 1) * Bit(b, 1) * 2 + Bit(a, 0) * Bit(b, 0)

\* u8 bitwise complement
Not8(b) ==
    (1 - Bit(b, 7)) * 128 + (1 - Bit(b, 6)) * 64 + (1 - Bit(b, 5)) * 32
        + (1 - Bit(b, 4)) * 16 + (1 - Bit(b, 3)) * 8 + (1 - Bit(b, 2)) * 4
        + (1 - Bit(b, 1)) * 2 + (1 - Bit(b, 0))

Repeat(b, n) == [i \in 1..n |-> b]

(***************************************************************************)
(* Bit pattern constants, lib.rs lines 10-46: one table per polarity       *)
(***************************************************************************)
GAIN128_NORMAL == 128
GAIN128_INVERTED == 127
GAIN32_NORMAL == 160
GAIN32_INVERTED == 95
GAIN64_NORMAL == 168
\* slip: the GAIN32 pattern pasted for GAIN64
GAIN64_INVERTED_CopyPaste == GAIN32_INVERTED
GAIN64_INVERTED == 87
CLOCK_NORMAL == 170
CLOCK_INVERTED == 85
SIGNAL_LOW_NORMAL == 0
SIGNAL_LOW_INVERTED == 255
RESET_LEN == 301
\* slip: one byte short of the 301 the reset needs
RESET_SIGNAL_NORMAL_Short == Repeat(255, RESET_LEN - 1)
RESET_SIGNAL_NORMAL == Repeat(255, RESET_LEN)
RESET_SIGNAL_INVERTED == Repeat(0, RESET_LEN)

\* the constant table selected by #[cfg(feature = "invert-sdo")]
GAIN128 == IF invert THEN GAIN128_INVERTED ELSE GAIN128_NORMAL
GAIN32 == IF invert THEN GAIN32_INVERTED ELSE GAIN32_NORMAL
GAIN64 == IF invert THEN GAIN64_INVERTED ELSE GAIN64_NORMAL
CLOCK == IF invert THEN CLOCK_INVERTED ELSE CLOCK_NORMAL
SIGNAL_LOW == IF invert THEN SIGNAL_LOW_INVERTED ELSE SIGNAL_LOW_NORMAL
RESET_SIGNAL == IF invert THEN RESET_SIGNAL_INVERTED ELSE RESET_SIGNAL_NORMAL

(***************************************************************************)
(* enum Mode, #[repr(u8)]: `m as u8` is the selector byte                  *)
(***************************************************************************)
Mode == {"ChAGain128", "ChBGain32", "ChAGain64"}

\* slip: the selectors of channel B / 32 and channel A / 64 exchanged
ModeAsU8_Swapped(m) ==
    CASE m = "ChAGain128" -> GAIN128
      [] m = "ChBGain32" -> GAIN64
      [] m = "ChAGain64" -> GAIN32

ModeAsU8(m) ==
    CASE m = "ChAGain128" -> GAIN128
      [] m = "ChBGain32" -> GAIN32
      [] m = "ChAGain64" -> GAIN64

(***************************************************************************)
(* enum Error<E> and impl From<E> for Error<E>                             *)
(***************************************************************************)
Spi(e) == [variant |-> "Spi", e |-> e]

NotReadyInTime == [variant |-> "NotReadyInTime", e |-> 0]

\* slip: the transport error mapped to the wrong variant
From_WrongVariant(e) == NotReadyInTime

From(e) == Spi(e)

Ok(v) == [kind |-> "Ok", val |-> v]

Err(x) == [kind |-> "Err", val |-> x]

Panic == [kind |-> "Panic", val |-> "unimplemented"]

None == [kind |-> "None", val |-> "none"]

Unit == "unit"

(***************************************************************************)
(* decode_output, lib.rs lines 215-242                                     *)
(***************************************************************************)
\* slip: pattern "?a?a?a?a", the clock sub-bits instead of the payload
BitmatchPayload_ClockBits(b) == Bit(b, 6) * 8 + Bit(b, 4) * 4 + Bit(b, 2) * 2 + Bit(b, 0)

\* #[bitmatch] let "a?a?a?a?" = byte: the bits at the 'a' positions, packed
BitmatchPayload(b) == Bit(b, 7) * 8 + Bit(b, 5) * 4 + Bit(b, 3) * 2 + Bit(b, 1)

\* bitpack!("aaaabbbb")
Bitpack(a, b) == a * 16 + b

\* i32::from_be_bytes: the first byte carries the sign bit
I32FromBeBytes(raw) ==
    (IF raw[1] >= 128 THEN raw[1] - 256 ELSE raw[1]) * Pow2(24)
        + raw[2] * Pow2(16) + raw[3] * Pow2(8) + raw[4]

\* Rust's `/` on i32 truncates toward zero
TruncDiv(x, d) ==
    IF x >= 0 \/ (x \div d) * d = x THEN x \div d ELSE (x \div d) + 1

\* the slip of reading the frame one byte late: bytes 1..6 instead of 0..5
PackedRaw_OffByOne(buf) ==
    <<Bitpack(BitmatchPayload(buf[2]), BitmatchPayload(buf[3])),
      Bitpack(BitmatchPayload(buf[4]), BitmatchPayload(buf[5])),
      Bitpack(BitmatchPayload(buf[6]), BitmatchPayload(buf[7])), 0>>

\* the slip of a filler byte that is not zero
PackedRaw_LowByteSet(buf) ==
    <<Bitpack(BitmatchPayload(buf[1]), BitmatchPayload(buf[2])),
      Bitpack(BitmatchPayload(buf[3]), BitmatchPayload(buf[4])),
      Bitpack(BitmatchPayload(buf[5]), BitmatchPayload(buf[6])), 255>>

\* the array `raw` of decode_output: three packed bytes and a zero
PackedRaw(buf) ==
    LET a == BitmatchPayload(buf[1])
        b == BitmatchPayload(buf[2])
        c == BitmatchPayload(buf[3])
        d == BitmatchPayload(buf[4])
        e == BitmatchPayload(buf[5])
        f == BitmatchPayload(buf[6])
    IN <<Bitpack(a, b), Bitpack(c, d), Bitpack(e, f), 0>>

\* the slip of dividing by 0x10 instead of 0x100
decode_output_Div16(buf) == TruncDiv(I32FromBeBytes(PackedRaw(buf)), 16)

decode_output(buf) == TruncDiv(I32FromBeBytes(PackedRaw(buf)), 256)

(***************************************************************************)
(* The HX711 as the driver's comments describe it: the pulses that follow  *)
(* the 24 data bits select channel and gain of the next conversion (lines  *)
(* 55-61, 176), a reset brings back channel A, gain 128 (line 163).        *)
(***************************************************************************)
\* PD_SCK pulses the chip sees in a selector byte: a pulse is the pair "10"
ChipPulses(b) ==
    LET w == IF invert THEN Not8(b) ELSE b
    IN Bit(w, 7) * (1 - Bit(w, 6)) + Bit(w, 5) * (1 - Bit(w, 4))
        + Bit(w, 3) * (1 - Bit(w, 2)) + Bit(w, 1) * (1 - Bit(w, 0))

\* 25, 26, 27 pulses in all: A/128, B/32, A/64
ChipSelects(b, cur) ==
    CASE ChipPulses(b) = 1 -> "ChAGain128"
      [] ChipPulses(b) = 2 -> "ChBGain32"
      [] ChipPulses(b) = 3 -> "ChAGain64"
      [] OTHER -> cur

(***************************************************************************)
(* The SPI bus collaborator: transfer_in_place either fails with a bus     *)
(* error or overwrites the buffer with as many bytes as it was given.      *)
(***************************************************************************)
Transferred(tx, rx) == [tx |-> tx, ok |-> TRUE, rx |-> rx]

Failed(tx, e) == [tx |-> tx, ok |-> FALSE, rx |-> <<e>>]

\* 7-byte responses the bus may deliver in the driver specification
Responses7 ==
    {Repeat(b, 7) : b \in ResponseBytes}
        \cup {[i \in 1..7 |-> IF i = 7 THEN c ELSE b] : b \in ResponseBytes, c \in {0, 255}}

\* responses to the reset transfer (discarded by the driver)
Responses301 == {Repeat(0, RESET_LEN), Repeat(255, RESET_LEN)}

(***************************************************************************)
(* Hx711::new, lib.rs lines 106-112                                        *)
(***************************************************************************)
\* slip: the constructor starting in another mode than the chip's default
Init_WrongDefault ==
    /\ invert \in BOOLEAN
    /\ mode = "ChAGain64"
    /\ pc = "idle"
    /\ op = "new"
    /\ arg = "ChAGain128"
    /\ txrx = 0
    /\ attempt = 0
    /\ buffer = Repeat(0, 7)
    /\ log = <<>>
    /\ rv = None
    /\ result = None
    /\ entryMode = "ChAGain128"
    /\ prev = <<"new", "None">>
    /\ checks = 0
    /\ chip = "ChAGain128"
    /\ entryChip = "ChAGain128"
    /\ conv = "none"

Init ==
    /\ invert \in BOOLEAN
    /\ mode = "ChAGain128"
    /\ pc = "idle"
    /\ op = "new"
    /\ arg = "ChAGain128"
    /\ txrx = 0
    /\ attempt = 0
    /\ buffer = Repeat(0, 7)
    /\ log = <<>>
    /\ rv = None
    /\ result = None
    /\ entryMode = "ChAGain128"
    /\ prev = <<"new", "None">>
    /\ checks = 0
    /\ chip = "ChAGain128"
    /\ entryChip = "ChAGain128"
    /\ conv = "none"

\* a public operation is entered: fresh locals, empty transfer record
Enter(o) ==
    /\ pc = "idle"
    /\ op' = o
    /\ txrx' = 0
    /\ attempt' = 0
    /\ buffer' = Repeat(0, 7)
    /\ rv' = None
    /\ entryMode' = mode
    /\ prev' = <<op, result.kind>>
    /\ checks' = 0
    /\ entryChip' = chip
    /\ conv' = "none"

(***************************************************************************)
(* Hx711::read_val, lib.rs lines 117-145                                   *)
(***************************************************************************)
\* read_val returns r to its caller: the user, or set_mode's `?` (line 176)
ReadValReturn(r) ==
    /\ rv' = r
    /\ pc' = "idle"
    /\ result' = IF op = "set_mode" /\ r.kind = "Ok" THEN Ok(arg) ELSE r

\* line 122: let mut txrx: [u8; 1] = [SIGNAL_LOW]
ProbeBuffer == <<SIGNAL_LOW>>

\* line 128: txrx[0] & 0b01 != 0b01 leaves the readiness loop
Ready(b) == And8(b, 1) # 1

\* line 133: attempt > 1000 gives up
RETRY_LIMIT == 1000

\* slip: >= where the code has >
RetryExhausted_AtLimit(a) == a >= RETRY_LIMIT

RetryExhausted(a) == a > RETRY_LIMIT

\* slip: the increment forgotten
AttemptNext_Stuck(a) == a

\* line 137: attempt += 1
AttemptNext(a) == a + 1

\* slip: the selector hard-coded instead of taken from self.mode
ReadValBuffer_DefaultSelector == <<CLOCK, CLOCK, CLOCK, CLOCK, CLOCK, CLOCK, GAIN128>>

\* line 140: [CLOCK, CLOCK, CLOCK, CLOCK, CLOCK, CLOCK, self.mode as u8]
ReadValBuffer == <<CLOCK, CLOCK, CLOCK, CLOCK, CLOCK, CLOCK, ModeAsU8(mode)>>

ReadValCall ==
    /\ Enter("read_val")
    /\ pc' = "probe"
    /\ log' = <<>>
    /\ result' = None
    /\ UNCHANGED <<invert, mode, arg, chip>>

\* lines 122-126: the readiness probe transfer
Probe ==
    /\ pc = "probe"
    /\ \/ \E e \in BusErrors :
            /\ log' = Append(log, Failed(ProbeBuffer, e))
            /\ ReadValReturn(Err(From(e)))
            /\ UNCHANGED <<txrx, attempt>>
       \/ \E b \in ProbeBytes :
            /\ log' = Append(log, Transferred(ProbeBuffer, <<b>>))
            /\ txrx' = b
            /\ attempt' = 0
            /\ pc' = "loop"
            /\ UNCHANGED <<rv, result>>
    /\ UNCHANGED <<invert, mode, op, arg, buffer, entryMode, prev, checks, chip, entryChip, conv>>

\* lines 127-138: one iteration of the readiness loop
\* the counter of checks stops counting past this value (never reached by the loop as written)
ChecksCap == RETRY_LIMIT + 3

LoopStep ==
    /\ pc = "loop"
    /\ checks' = IF checks < ChecksCap THEN checks + 1 ELSE checks
    /\ IF Ready(txrx)
         THEN /\ pc' = "xfer"
              /\ UNCHANGED <<attempt, rv, result>>
         ELSE IF RetryExhausted(attempt)
                THEN /\ ReadValReturn(Err(NotReadyInTime))
                     /\ UNCHANGED attempt
                ELSE /\ attempt' = AttemptNext(attempt)
                     /\ UNCHANGED <<pc, rv, result>>
    /\ UNCHANGED <<invert, mode, op, arg, txrx, buffer, log, entryMode, prev, chip, entryChip, conv>>

\* lines 140-144: the clock + selector transfer and the decoding
Transfer7 ==
    /\ pc = "xfer"
    /\ LET tx == ReadValBuffer
       IN \/ \E e \in BusErrors :
                /\ log' = Append(log, Failed(tx, e))
                /\ ReadValReturn(Err(From(e)))
                /\ chip' \in {chip, ChipSelects(tx[7], chip)}
                /\ UNCHANGED <<buffer, conv>>
          \/ \E rx \in Responses7 :
                /\ log' = Append(log, Transferred(tx, rx))
                /\ buffer' = rx
                /\ ReadValReturn(Ok(decode_output(rx)))
                /\ conv' = chip
                /\ chip' = ChipSelects(tx[7], chip)
    /\ UNCHANGED <<invert, mode, op, arg, txrx, attempt, entryMode, prev, checks, entryChip>>

(***************************************************************************)
(* Hx711::reset, lib.rs lines 151-166                                      *)
(***************************************************************************)
\* slip: the default mode not restored after the reset transfer
Reset_KeepMode ==
    /\ Enter("reset")
    /\ \/ \E e \in BusErrors :
            /\ log' = Append(<<>>, Failed(RESET_SIGNAL, e))
            /\ result' = Err(e)
            /\ chip' \in {chip, "ChAGain128"}
       \/ \E rx \in Responses301 :
            /\ log' = Append(<<>>, Transferred(RESET_SIGNAL, rx))
            /\ result' = Ok(Unit)
            /\ chip' = "ChAGain128"
    /\ UNCHANGED <<invert, mode, pc, arg>>

\* slip: the default mode restored before the transfer is known to be done
Reset_ModeFirst ==
    /\ Enter("reset")
    /\ mode' = "ChAGain128"
    /\ \/ \E e \in BusErrors :
            /\ log' = Append(<<>>, Failed(RESET_SIGNAL, e))
            /\ result' = Err(e)
            /\ chip' \in {chip, "ChAGain128"}
       \/ \E rx \in Responses301 :
            /\ log' = Append(<<>>, Transferred(RESET_SIGNAL, rx))
            /\ result' = Ok(Unit)
            /\ chip' = "ChAGain128"
    /\ UNCHANGED <<invert, pc, arg>>

Reset ==
    /\ Enter("reset")
    /\ \/ \E e \in BusErrors :
            /\ log' = Append(<<>>, Failed(RESET_SIGNAL, e))
            /\ result' = Err(e)
            /\ chip' \in {chip, "ChAGain128"}
            /\ UNCHANGED mode
       \/ \E rx \in Responses301 :
            /\ log' = Append(<<>>, Transferred(RESET_SIGNAL, rx))
            /\ mode' = "ChAGain128"
            /\ result' = Ok(Unit)
            /\ chip' = "ChAGain128"
    /\ UNCHANGED <<invert, pc, arg>>

(***************************************************************************)
(* Hx711::set_mode, lib.rs lines 172-178                                   *)
(***************************************************************************)
\* slip: the requested mode not stored before the read
SetModeCall_NoStore ==
    \E m \in Mode :
        /\ Enter("set_mode")
        /\ arg' = m
        /\ pc' = "probe"
        /\ log' = <<>>
        /\ result' = None
        /\ UNCHANGED <<invert, mode, chip>>

SetModeCall ==
    \E m \in Mode :
        /\ Enter("set_mode")
        /\ arg' = m
        /\ mode' = m
        /\ pc' = "probe"
        /\ log' = <<>>
        /\ result' = None
        /\ UNCHANGED <<invert, chip>>

(***************************************************************************)
(* Hx711::mode and Hx711::get_mode, lib.rs lines 180-190                   *)
(***************************************************************************)
ModeCall ==
    /\ Enter("mode")
    /\ log' = <<>>
    /\ result' = Ok(mode)
    /\ UNCHANGED <<invert, mode, pc, arg, chip>>

\* slip: the compatibility getter answering the default instead of the field
GetModeCall_Default ==
    /\ Enter("get_mode")
    /\ log' = <<>>
    /\ result' = Ok("ChAGain128")
    /\ UNCHANGED <<invert, mode, pc, arg, chip>>

GetModeCall ==
    /\ Enter("get_mode")
    /\ log' = <<>>
    /\ result' = Ok(mode)
    /\ UNCHANGED <<invert, mode, pc, arg, chip>>

(***************************************************************************)
(* Hx711::disable and Hx711::enable, lib.rs lines 197-212: unimplemented!  *)
(* panics, so control never comes back to the caller                       *)
(***************************************************************************)
\* slip: power control as a silent no-op
Disable_SilentOk ==
    /\ Enter("disable")
    /\ log' = <<>>
    /\ result' = Ok(Unit)
    /\ UNCHANGED <<invert, mode, pc, arg, chip>>

Disable ==
    /\ Enter("disable")
    /\ pc' = "panicked"
    /\ log' = <<>>
    /\ result' = Panic
    /\ UNCHANGED <<invert, mode, arg, chip>>

Enable ==
    /\ Enter("enable")
    /\ pc' = "panicked"
    /\ log' = <<>>
    /\ result' = Panic
    /\ UNCHANGED <<invert, mode, arg, chip>>

Next ==
    \/ ReadValCall
    \/ Probe
    \/ LoopStep
    \/ Transfer7
    \/ Reset
    \/ SetModeCall
    \/ ModeCall
    \/ GetModeCall
    \/ Disable
    \/ Enable

Spec == Init /\ [][Next]_vars

\* the readiness loop contains no await: once entered it runs on
FairSpec == Spec /\ WF_vars(LoopStep)

(***************************************************************************)
(* decode_output on its own: every buffer over the sample bytes is decoded *)
(***************************************************************************)
InitDecode ==
    /\ invert = FALSE
    /\ mode = "ChAGain128"
    /\ pc = "decode"
    /\ op = "decode_output"
    /\ arg = "ChAGain128"
    /\ txrx = 0
    /\ attempt = 0
    /\ buffer \in [1..7 -> DecodeBytes]
    /\ log = <<>>
    /\ rv = None
    /\ result = None
    /\ entryMode = "ChAGain128"
    /\ prev = <<"new", "None">>
    /\ checks = 0
    /\ chip = "ChAGain128"
    /\ entryChip = "ChAGain128"
    /\ conv = "none"

Decode ==
    /\ pc = "decode"
    /\ pc' = "decoded"
    /\ rv' = Ok(decode_output(buffer))
    /\ UNCHANGED <<invert, mode, op, arg, txrx, attempt, buffer, log, result, entryMode, prev,
                   checks, chip, entryChip, conv>>

NextDecode == Decode

SpecDecode == InitDecode /\ [][NextDecode]_vars

TypeOK ==
    /\ invert \in BOOLEAN
    /\ mode \in Mode
    /\ arg \in Mode
    /\ entryMode \in Mode
    /\ pc \in {"idle", "probe", "loop", "xfer", "panicked"}
    /\ txrx \in 0..255
    /\ attempt \in 0..(RETRY_LIMIT + 1)
    /\ Len(buffer) = 7
    /\ Len(log) <= 2
    /\ result.kind \in {"None", "Ok", "Err", "Panic"}

(***************************************************************************)
(* Properties                                                              *)
(***************************************************************************)
ReadValDone == pc = "idle" /\ op \in {"read_val", "set_mode"}

IsOk(r) == r.kind = "Ok"

IsErr(r) == r.kind = "Err"

\* r is Err(Error::Spi(e)) for some e
IsSpiErr(r) == r.kind = "Err" /\ r.val.variant = "Spi"

\* r is Err(Error::NotReadyInTime)
IsNotReadyInTime(r) == r.kind = "Err" /\ r.val.variant = "NotReadyInTime"

NotReadyReturned == ReadValDone /\ IsNotReadyInTime(rv)

LoopNotReady == pc = "loop" /\ ~Ready(txrx)

\* selector bytes as written in the source, per polarity
SelectorOf(m, inv) ==
    CASE m = "ChAGain128" -> IF inv THEN 127 ELSE 128
      [] m = "ChBGain32" -> IF inv THEN 95 ELSE 160
      [] m = "ChAGain64" -> IF inv THEN 87 ELSE 168

\* C1: a read_val whose probe reports ready issues exactly two transfers,
\* [SIGNAL_LOW] and then [CLOCK x 6, selector of the stored mode], and the
\* value it returns is decode_output of the 7-byte response; after new the
\* selector is GAIN128.
C1_ReadyReadTransfers ==
    (ReadValDone /\ Len(log) >= 1 /\ log[1].ok /\ Ready(log[1].rx[1])) =>
        /\ Len(log) = 2
        /\ log[1].tx = <<IF invert THEN 255 ELSE 0>>
        /\ log[2].tx = [i \in 1..7 |-> IF i = 7 THEN SelectorOf(mode, invert)
                                       ELSE IF invert THEN 85 ELSE 170]
        /\ log[2].ok => (IsOk(rv) /\ rv.val = decode_output(log[2].rx))
        /\ (prev[1] = "new" /\ op = "read_val") => log[2].tx[7] = GAIN128

C1_Witness ==
    /\ ReadValDone
    /\ op = "read_val"
    /\ invert
    /\ mode = "ChBGain32"
    /\ Len(log) = 2
    /\ rv.kind = "Ok"
    /\ rv.val = -1

\* the 24 payload bits, most significant first: bits 7, 5, 3, 1 of bytes 0..5
PayloadBit(buf, k) == Bit(buf[(k \div 4) + 1], 7 - 2 * (k % 4))

Unsigned24(buf) ==
    LET s[k \in 0..24] == IF k = 24 THEN 0
                          ELSE PayloadBit(buf, k) * Pow2(23 - k) + s[k + 1]
    IN s[0]

TwosComplement24(u) == IF u >= Pow2(23) THEN u - Pow2(24) ELSE u

\* C2: decode_output returns the signed value of the 24-bit two's complement
\* number made of bits 7, 5, 3, 1 of bytes 0..5, most significant first;
\* the four test vectors decode to 0, -1, -1 and 0x00555555.
C2_DecodeIsPayload ==
    /\ pc = "decoded" => rv = Ok(TwosComplement24(Unsigned24(buffer)))
    /\ decode_output(Repeat(85, 7)) = 0
    /\ decode_output(Repeat(170, 7)) = -1
    /\ decode_output(Repeat(255, 7)) = -1
    /\ decode_output(Repeat(39, 7)) = 5592405

C2_Witness ==
    /\ pc = "decoded"
    /\ buffer = <<170, 85, 39, 128, 85, 39, 85>>
    /\ rv.val = -1026043

NotReadyProbes ==
    {i \in 1..Len(log) : Len(log[i].tx) = 1 /\ log[i].ok /\ ~Ready(log[i].rx[1])}

\* C3: while the probe answer is not-ready read_val repeats the probe, one
\* new 1-byte transfer per retry attempt, and gives up only after the chip
\* answered not-ready on as many probes as the retry bound allows.
C3_ProbeRepeated ==
    /\ pc = "loop" => Len(log) = attempt + 1
    /\ NotReadyReturned => Cardinality(NotReadyProbes) >= RETRY_LIMIT

C5_SetModeStoresAndSends ==
    /\ []((pc = "idle" /\ op = "set_mode" /\ result.kind = "Ok") =>
            /\ result.val = arg
            /\ mode = arg
            /\ Len(log) = 2
            /\ log[2].ok
            /\ log[2].tx[7] = SelectorOf(arg, invert))
    /\ [][(pc = "idle" /\ op = "set_mode" /\ result.kind = "Ok" /\ op' = "mode")
            => (IsOk(result') /\ result'.val = arg)]_vars

C5_Witness ==
    /\ pc = "idle"
    /\ op = "set_mode"
    /\ IsOk(result)
    /\ result.val = "ChBGain32"
    /\ entryMode = "ChAGain64"

\* C6: a reset that completes leaves the stored mode at ChAGain128 whatever
\* it was before, and the read_val that follows sends the GAIN128 selector.
C6_ResetRestoresDefault ==
    /\ (op = "reset" /\ result.kind = "Ok") => mode = "ChAGain128"
    /\ (op = "read_val" /\ prev = <<"reset", "Ok">> /\ Len(log) = 2) =>
            log[2].tx[7] = SelectorOf("ChAGain128", invert)

C6_Witness ==
    /\ op = "read_val"
    /\ prev = <<"reset", "Ok">>
    /\ Len(log) = 2
    /\ rv.kind = "Ok"

\* C7: reset issues exactly one transfer and no probe; the request has 301
\* bytes, each the polarity-adjusted high level; reset fails only with the
\* transport error of that transfer, never with NotReadyInTime.
C7_ResetSingleTransfer ==
    op = "reset" =>
        /\ Len(log) = 1
        /\ Len(log[1].tx) = 301
        /\ \A i \in 1..Len(log[1].tx) : log[1].tx[i] = (IF invert THEN 0 ELSE 255)
        /\ log[1].ok => (IsOk(result) /\ result.val = Unit)
        /\ ~log[1].ok => (IsErr(result) /\ result.val = log[1].rx[1])
        /\ IsErr(result) => result.val \in BusErrors

C7_Witness ==
    /\ op = "reset"
    /\ invert
    /\ result.kind = "Err"
    /\ mode = "ChAGain64"

FailedTransfers == {i \in 1..Len(log) : ~log[i].ok}

\* C8: a bus failure inside read_val or set_mode is returned at once as
\* Spi(e) with e the bus's error: a failed probe is followed by no other
\* transfer, a failed 7-byte transfer yields no sample, nothing is retried.
C8_TransferErrorPropagates ==
    (op \in {"read_val", "set_mode"} /\ FailedTransfers # {}) =>
        /\ pc = "idle"
        /\ FailedTransfers = {Len(log)}
        /\ IsSpiErr(rv)
        /\ rv.val = Spi(log[Len(log)].rx[1])
        /\ result = rv
        /\ \A i \in 1..Len(log) : \A j \in 1..Len(log) :
                (i # j) => Len(log[i].tx) # Len(log[j].tx)

C8_Witness ==
    /\ op = "set_mode"
    /\ Len(log) = 2
    /\ ~log[2].ok
    /\ IsSpiErr(result)
    /\ result.val.e = 2

\* C9 as stated: enable and disable return an unsupported-operation error
\* to the caller.
C9_ReturnsError ==
    op \in {"enable", "disable"} => (pc = "idle" /\ result.kind = "Err")

\* C9 amended: enable and disable never return success, issue no bus
\* transfer and leave the stored mode alone; they return nothing at all,
\* the call panics (unimplemented!).
C9_PanicsWithoutEffect ==
    op \in {"enable", "disable"} =>
        /\ result.kind = "Panic"
        /\ pc = "panicked"
        /\ log = <<>>
        /\ mode = entryMode

C9_Witness ==
    /\ op = "disable"
    /\ mode = "ChAGain64"
    /\ invert

\* the two constant tables of lib.rs lines 10-46 compared entry by entry
ComplementTables ==
    /\ GAIN128_INVERTED = Not8(GAIN128_NORMAL)
    /\ GAIN32_INVERTED = Not8(GAIN32_NORMAL)
    /\ GAIN64_INVERTED = Not8(GAIN64_NORMAL)
    /\ CLOCK_INVERTED = Not8(CLOCK_NORMAL)
    /\ SIGNAL_LOW_INVERTED = Not8(SIGNAL_LOW_NORMAL)
    /\ Len(RESET_SIGNAL_NORMAL) = 301
    /\ Len(RESET_SIGNAL_INVERTED) = 301
    /\ \A i \in 1..301 : RESET_SIGNAL_INVERTED[i] = Not8(RESET_SIGNAL_NORMAL[i])
    /\ Cardinality({GAIN128_NORMAL, GAIN32_NORMAL, GAIN64_NORMAL}) = 3
    /\ Cardinality({GAIN128_INVERTED, GAIN32_INVERTED, GAIN64_INVERTED}) = 3

\* C10: each inverted-polarity constant is the 8-bit complement of the
\* normal-polarity one (GAIN128, GAIN32, GAIN64, CLOCK, SIGNAL_LOW and all
\* 301 bytes of RESET_SIGNAL); the three selectors are pairwise distinct in
\* each polarity, also as the build in use sends them.
C10_InvertedIsComplement ==
    /\ ComplementTables
    /\ Cardinality({ModeAsU8(m) : m \in Mode}) = 3

C10_Witness ==
    /\ invert
    /\ op = "set_mode"
    /\ Len(log) = 2
    /\ log[2].tx = <<85, 85, 85, 85, 85, 85, 87>>

\* C11: mode() and get_mode() return the stored mode, cannot fail, issue no
\* bus transfer and change nothing of the driver: the stored mode and the
\* polarity, which alone decide what later operations send, stay as they
\* were, and the call is over at once.
C11_GettersArePure ==
    /\ [](op \in {"mode", "get_mode"} =>
            /\ pc = "idle"
            /\ IsOk(result)
            /\ result.val = mode
            /\ mode = entryMode
            /\ log = <<>>)
    /\ [][(op' \in {"mode", "get_mode"} /\ pc = "idle") =>
            (mode' = mode /\ invert' = invert /\ chip' = chip /\ pc' = "idle")]_vars

C11_Witness ==
    /\ op = "get_mode"
    /\ prev = <<"mode", "Ok">>
    /\ IsOk(result)
    /\ result.val = "ChBGain32"

\* C12: new cannot fail, issues no bus transfer and leaves the stored mode at
\* ChAGain128; the stored mode is always one of the three modes.
C12_NewAndModeDomain ==
    /\ mode \in {"ChAGain128", "ChBGain32", "ChAGain64"}
    /\ op = "new" =>
            /\ mode = "ChAGain128"
            /\ pc = "idle"
            /\ log = <<>>
            /\ result.kind = "None"

C12_Witness ==
    /\ op = "new"
    /\ invert
    /\ mode = "ChAGain128"

\* C13: with the chip applying to a conversion the selector of the last
\* completed 7-byte read (ChAGain128 after a reset), the sample returned by
\* the read inside a successful set_mode(X) was converted under the mode in
\* force before the call and leaves the chip at X; the chip then stays at the
\* stored mode through every step that is not a set_mode or reset call, so
\* each later successful read_val returns a sample converted under X.
C13_ModeTakesEffectOneReadLate ==
    /\ []((pc = "idle" /\ op = "set_mode" /\ IsOk(result)) =>
            /\ conv = entryChip
            /\ chip = arg
            /\ mode = arg)
    /\ []((pc = "idle" /\ op = "read_val" /\ IsOk(result)) =>
            /\ conv = entryChip
            /\ chip = mode
            /\ (entryChip = entryMode) => (conv = mode))
    /\ [][(chip = mode /\ ~(pc = "idle" /\ op' \in {"set_mode", "reset"}))
            => (chip' = mode')]_vars

C13_Witness ==
    /\ pc = "idle"
    /\ op = "set_mode"
    /\ IsOk(result)
    /\ arg = "ChBGain32"
    /\ conv = "ChAGain64"

\* C14: the readiness decision looks at the least significant bit of the
\* probe answer only and follows the polarity: an answer equal to the
\* build's SIGNAL_LOW (0x00 normal, 0xFF inverted) counts as ready and
\* read_val goes on to the 7-byte transfer, as test_read expects.
C14_IdleAnswerIsReady ==
    /\ (pc = "loop" /\ txrx = (IF invert THEN 255 ELSE 0)) => Ready(txrx)
    /\ (ReadValDone /\ Len(log) >= 1 /\ log[1].ok
            /\ log[1].rx = <<IF invert THEN 255 ELSE 0>>) => Len(log) = 2
    /\ \A b \in 0..255 : Ready(b) = (Bit(b, 0) = 0)

\* C16 as stated: with the chip not ready read_val checks the probe answer
\* at most 1000 times before NotReadyInTime, and not fewer than 1000 times.
C16_ThousandAttempts ==
    NotReadyReturned => (checks <= 1000 /\ checks >= 1000)

\* C16 amended: with the chip not ready read_val checks the probe answer
\* exactly 1002 times (attempt = 0 .. 1001) before it returns
\* NotReadyInTime; it never gives up before the 1000th check.
C16_ThousandAndTwoChecks ==
    /\ NotReadyReturned => (checks = 1002 /\ attempt = 1001)
    /\ pc = "loop" => checks = attempt
    /\ (pc = "loop" /\ ~Ready(txrx)) => checks <= 1001
    /\ checks < ChecksCap

C16_Witness ==
    /\ NotReadyReturned
    /\ op = "set_mode"
    /\ checks = 1002

\* C19: set_mode does not roll back: when the read inside set_mode(X) fails
\* (Spi or NotReadyInTime) the stored mode is X all the same, mode() then
\* returns X and the next read_val that gets to its 7-byte transfer sends
\* X's selector, whether or not the chip ever received it.
C19_SetModeKeepsModeOnFailure ==
    /\ []((pc = "idle" /\ op = "set_mode" /\ IsErr(result)) =>
            /\ mode = arg
            /\ (IsSpiErr(result) \/ IsNotReadyInTime(result)))
    /\ []((op = "read_val" /\ prev = <<"set_mode", "Err">> /\ Len(log) = 2) =>
            log[2].tx[7] = SelectorOf(arg, invert))
    /\ [][(pc = "idle" /\ op = "set_mode" /\ IsErr(result) /\ op' = "mode")
            => (IsOk(result') /\ result'.val = arg)]_vars

C19_Witness ==
    /\ pc = "idle"
    /\ op = "set_mode"
    /\ IsNotReadyInTime(result)
    /\ arg = "ChAGain64"
    /\ entryMode = "ChBGain32"
    /\ chip = "ChBGain32"

\* C20: a reset whose transfer fails returns the transport error and leaves
\* the stored mode as it was; only a successful transfer makes it
\* ChAGain128.  read_val never changes the stored mode.
C20_FailedResetKeepsMode ==
    /\ []((op = "reset" /\ IsErr(result)) =>
            /\ mode = entryMode
            /\ ~log[1].ok
            /\ result.val = log[1].rx[1])
    /\ []((op = "reset" /\ mode # entryMode) => (IsOk(result) /\ log[1].ok))
    /\ [](op = "read_val" => mode = entryMode)
    /\ [][(pc \in {"probe", "loop", "xfer"} \/ op' = "read_val") => (mode' = mode)]_vars

C20_Witness ==
    /\ op = "reset"
    /\ IsErr(result)
    /\ mode = "ChBGain32"
    /\ result.val = 2

\* the buffer with the clock sub-bits (6, 4, 2, 0) of bytes 0..5 cleared and
\* the selector byte cleared: a function of the payload bits alone
PayloadOnly(buf) == [i \in 1..7 |-> IF i = 7 THEN 0 ELSE And8(buf[i], 170)]

\* byte b with its clock sub-bits replaced by the four bits of k
WithClockBits(b, k) ==
    And8(b, 170) + Bit(k, 3) * 64 + Bit(k, 2) * 16 + Bit(k, 1) * 4 + Bit(k, 0)

\* clock sub-bit patterns tried: all clear, all set, and the two alternating ones
ClockPatterns == {0, 5, 10, 15}

\* seventh bytes tried: the six selectors, the idle bytes and the clock bytes
SeventhBytes ==
    {GAIN128_NORMAL, GAIN32_NORMAL, GAIN64_NORMAL, GAIN128_INVERTED, GAIN32_INVERTED,
     GAIN64_INVERTED, 0, 255, 85, 170}

\* C15: decode_output depends on the payload bits only: a buffer decodes to
\* the value of its payload-only form, and replacing the clock sub-bits of
\* any of bytes 0..5 or the seventh byte by anything leaves the value as it
\* is; hence two buffers that agree on the payload bits decode alike.
C15_DecodeDependsOnPayloadOnly ==
    pc = "decoded" =>
        /\ rv = Ok(decode_output(buffer))
        /\ decode_output(PayloadOnly(buffer)) = rv.val
        /\ \A i \in 1..6 : \A k \in ClockPatterns :
                decode_output([buffer EXCEPT ![i] = WithClockBits(buffer[i], k)]) = rv.val
        /\ \A v \in SeventhBytes : decode_output([buffer EXCEPT ![7] = v]) = rv.val

C15_Witness ==
    /\ pc = "decoded"
    /\ buffer = <<39, 85, 39, 85, 39, 85, 170>>
    /\ PayloadOnly(buffer) = <<34, 0, 34, 0, 34, 0, 0>>
    /\ rv.val = 5263440

I24_MIN == -Pow2(23)

I24_MAX == Pow2(23) - 1

\* C17: every value decode_output returns lies in the signed 24-bit range
\* -0x800000 .. 0x7FFFFF, and both ends of the range are values of
\* decode_output.
C17_DecodedIn24BitRange ==
    /\ IsOk(rv) => (rv.val >= I24_MIN /\ rv.val <= I24_MAX)
    /\ decode_output(<<128, 85, 85, 85, 85, 85, 85>>) = I24_MIN
    /\ decode_output(<<127, 170, 170, 170, 170, 170, 0>>) = I24_MAX

C17_Witness ==
    /\ pc = "decoded"
    /\ buffer = <<128, 85, 85, 85, 85, 85, 85>>
    /\ rv.val = I24_MIN

\* arithmetic right shift of an i32 by 8: the floor of x / 2^8
Shr8(x) == x \div 256

\* the division agrees with the shift on the i32 of every first packed byte,
\* with the other packed bytes at their extremes
ShiftTable ==
    \A p0 \in 0..255 : \A p1 \in {0, 1, 128, 255} : \A p2 \in {0, 1, 128, 255} :
        LET x == I32FromBeBytes(<<p0, p1, p2, 0>>)
        IN TruncDiv(x, 256) = Shr8(x) /\ TruncDiv(x, 256) * 256 = x

\* C18: in decode_output the truncating division by 0x100 equals the
\* arithmetic right shift by 8, negative values included: the low byte of
\* the i32 is 0, so the division is exact.
C18_DivisionIsShift ==
    /\ pc = "decoded" =>
            /\ PackedRaw(buffer)[4] = 0
            /\ rv.val = Shr8(I32FromBeBytes(PackedRaw(buffer)))
            /\ rv.val * 256 = I32FromBeBytes(PackedRaw(buffer))
    /\ ShiftTable

C18_Witness ==
    /\ pc = "decoded"
    /\ buffer = <<170, 85, 39, 128, 85, 39, 85>>
    /\ I32FromBeBytes(PackedRaw(buffer)) = -262667008
    /\ rv.val = -1026043

====
